---- MODULE Spec2Model ----
(***************************************************************************)
(* Multi-version store with snapshot transactions (src/mvcc.py).           *)
(*                                                                         *)
(* Threads call VersionStore.write, TransactionManager.begin_transaction,  *)
(* read, write, commit, garbage_collect and Transaction.abort.  Every      *)
(* access to shared data that the source performs outside a lock, or under *)
(* a lock that another operation does not take, is a step of its own, so   *)
(* that the interleavings CPython's thread switching allows are the        *)
(* behaviours of the model.  A transaction handle is used by one thread at *)
(* a time, as in every test and demo of the repository.                    *)
(***************************************************************************)
EXTENDS Integers, Sequences, FiniteSets, TLC

\* ------------------------------------------------------------------ bounds
MaxVersion == 3      \* version ids issued in one behaviour
MaxTx == 2           \* transactions begun in one behaviour
MaxGc == 1           \* garbage_collect calls in one behaviour
MaxOps == 2          \* read and write calls made on one transaction
MaxAuthorOps == 3    \* read and write calls of an author on one transaction
MaxTesterOps == 2    \* read and write calls of a tester in one behaviour

Threads == {1, 2, 3}
AllKeys == {"a", "b", "c"}
Keys == {"a", "b"}            \* keys the clients use
Values == {1, 2}              \* values the clients write in transactions
TxIds == 1..MaxTx
NoneV == -1                   \* Python's None
OpeningBalance == 2           \* balance of every account before the transfers
Amounts == {1, 3}             \* amounts a transfer may move

VARIABLES
  versions,         \* VersionStore.versions: key -> list of versions
  vkeys,            \* the keys of VersionStore.versions, in insertion order
  version_counter,  \* VersionStore.version_counter
  store_lock,       \* VersionStore.lock: the holding thread, or 0
  gc_runs,          \* VersionStore.gc_runs
  txs,              \* the Transaction objects, by tx_id
  transactions,     \* the keys of TransactionManager.transactions
  tx_counter,       \* TransactionManager.tx_counter
  lock,             \* TransactionManager.lock: the holding thread, or 0
  committed_count,  \* TransactionManager.committed_count
  aborted_count,    \* TransactionManager.aborted_count
  latencies,        \* TransactionManager.latencies: one entry per finished tx
  pc,               \* each thread's position
  loc,              \* each thread's local variables
  ev,               \* what the last step returned to its caller, if it was
                    \* the value of a read, the count of a gc, or an error
  written,          \* history: the version ids each commit wrote
  job               \* what each thread does: its role, and the transaction
                    \* or the transfer it is running

shared == <<versions, vkeys, version_counter, store_lock, gc_runs, txs,
            transactions, tx_counter, lock, committed_count, aborted_count,
            latencies>>
vars == <<versions, vkeys, version_counter, store_lock, gc_runs, txs,
          transactions, tx_counter, lock, committed_count, aborted_count,
          latencies, pc, loc, ev, written, job>>

\* ------------------------------------------------------------- dictionaries
\* A Python dict is a sequence of entries in insertion order.
DictHas(d, key) == \E i \in 1..Len(d) : d[i].key = key

DictIndex(d, key) == CHOOSE i \in 1..Len(d) : d[i].key = key

DictGet(d, key) == d[DictIndex(d, key)]

\* A dict whose assignment keeps the value a key already has.
DictSetFirstWins(d, entry) ==
  IF DictHas(d, entry.key) THEN d ELSE Append(d, entry)

\* d[key] = entry: replaces in place, or appends a new key.
DictSet(d, entry) ==
  IF DictHas(d, entry.key)
  THEN [d EXCEPT ![DictIndex(d, entry.key)] = entry]
  ELSE Append(d, entry)

\* ------------------------------------------------------------ VersionStore
RECURSIVE ScanBack(_, _, _)
\* for v in reversed(list): if v.version_id <= snapshot: found.  0: not found.
ScanBack(list, i, snapshot) ==
  IF i = 0 THEN 0
  ELSE IF list[i].version_id <= snapshot THEN i
  ELSE ScanBack(list, i - 1, snapshot)

RECURSIVE ScanForward(_, _, _)
\* The same scan run from the oldest version on.
ScanForward(list, i, snapshot) ==
  IF i > Len(list) THEN 0
  ELSE IF list[i].version_id <= snapshot THEN i
  ELSE ScanForward(list, i + 1, snapshot)

\* A read that returns the oldest version at or below the snapshot.
StoreReadOldest(vs, key, snapshot) ==
  LET i == ScanForward(vs[key], 1, snapshot)
  IN  IF i = 0 THEN NoneV ELSE vs[key][i].value

\* VersionStore.read
StoreRead(vs, key, snapshot) ==
  LET i == ScanBack(vs[key], Len(vs[key]), snapshot)
  IN  IF i = 0 THEN NoneV ELSE vs[key][i].value

\* The version id TransactionManager.read resolves after the store read.
ReadVersionId(vs, key, snapshot) ==
  LET i == ScanBack(vs[key], Len(vs[key]), snapshot)
  IN  IF i = 0 THEN NoneV ELSE vs[key][i].version_id

\* -------------------------------------------------------------- initial state
LocInit ==
  [tx |-> 0, key |-> "a", value |-> NoneV, i |-> 0, min_snapshot |-> 0,
   keys |-> <<>>, visible |-> NoneV, new_versions |-> <<>>, collected |-> 0]

\* The last step returned no such thing.
NoEvent ==
  [thread |-> 0, op |-> "none", tx |-> 0, key |-> "a", kind |-> "none",
   val |-> NoneV, buffered |-> FALSE]

TxInit ==
  [snapshot_version |-> 0, read_set |-> <<>>, write_set |-> <<>>,
   status |-> "unborn",
   \* history: each key's value in the store when begin_transaction read
   \* the counter, and when it returned
   view |-> [k \in AllKeys |-> NoneV],
   view_ret |-> [k \in AllKeys |-> NoneV],
   \* history: the values mgr.write was called with for each key
   wrote |-> [k \in AllKeys |-> <<>>]]

\* What a thread does: its role, the transaction it is running (0: none), the
\* read and write calls it has made on it, whether an author has begun its
\* transaction and, for a transfer worker, its transfer.  History, for a
\* tester: the store as it was when its last gc() call began; for an
\* inserter: whether its read returned none.
JobInit ==
  [role |-> "off", tx |-> 0, ops |-> 0, begun |-> FALSE, from |-> "a",
   to |-> "a", amount |-> 0, from_bal |-> NoneV, to_bal |-> NoneV,
   before |-> [k \in AllKeys |-> <<>>], read_none |-> FALSE]

\* The state after construction and the store writes of `loaded`, a sequence
\* of keys, with the values `values`, with each thread in its role.
Start(loaded, values, roles) ==
  /\ versions = [k \in AllKeys |->
       SelectSeq([i \in 1..Len(loaded) |->
                    [value |-> values[i], version_id |-> i,
                     key |-> loaded[i]]],
                 LAMBDA v : v.key = k)]
  /\ vkeys = loaded
  /\ version_counter = Len(loaded)
  /\ store_lock = 0
  /\ gc_runs = 0
  /\ txs = [x \in TxIds |-> TxInit]
  /\ transactions = {}
  /\ tx_counter = 0
  /\ lock = 0
  /\ committed_count = 0
  /\ aborted_count = 0
  /\ latencies = <<>>
  /\ pc = [t \in Threads |-> "idle"]
  /\ loc = [t \in Threads |-> LocInit]
  /\ ev = NoEvent
  /\ written = [x \in TxIds |-> {}]
  /\ job = [t \in Threads |-> [JobInit EXCEPT !.role = roles[t]]]

\* ------------------------------------------------------------ thread helpers
Idle(t) == pc[t] = "idle"

Goto(t, label) == pc' = [pc EXCEPT ![t] = label]

\* A step that returns nothing of interest to a caller.
Silent == ev' = NoEvent

\* The call of thread t returns, with a value that is known from the state.
Done(t) ==
  /\ pc' = [pc EXCEPT ![t] = "idle"]
  /\ loc' = [loc EXCEPT ![t] = LocInit]
  /\ Silent

\* The call op(x, key) of thread t returns val, or raises kind.  (For a direct
\* store read, x is the snapshot.)
Return(t, op, x, key, kind, val, buffered) ==
  /\ pc' = [pc EXCEPT ![t] = "idle"]
  /\ loc' = [loc EXCEPT ![t] = LocInit]
  /\ ev' = [thread |-> t, op |-> op, tx |-> x, key |-> key, kind |-> kind,
            val |-> val, buffered |-> buffered]

\* A transaction handle is used by one thread at a time.
TxBusy(x) == \E u \in Threads : pc[u] # "idle" /\ loc[u].tx = x

\* A lookup that fails and leaves the missing id in the live set.
KeyErrorCreatesTransaction(t, op, x, key) ==
  /\ Return(t, op, x, key, "KeyError", NoneV, FALSE)
  /\ transactions' = transactions \cup {x}
  /\ UNCHANGED <<versions, vkeys, version_counter, store_lock, gc_runs, txs,
                 tx_counter, lock, committed_count, aborted_count, latencies,
                 written>>

\* tx = self.transactions[tx_id] raises KeyError: the call ends there.
KeyError(t, op, x, key) ==
  /\ Return(t, op, x, key, "KeyError", NoneV, FALSE)
  /\ UNCHANGED <<shared, written>>

\* ------------------------------------------------------- VersionStore.write
\* A counter bump that does not wait for the store lock.
StoreWriteIncUnlocked(t) ==
  /\ store_lock' = t
  /\ version_counter' = version_counter + 1

\* with self.lock: self.version_counter += 1
StoreWriteInc(t) ==
  /\ store_lock = 0
  /\ store_lock' = t
  /\ version_counter' = version_counter + 1

\* new_version = VersionedValue(value, self.version_counter);
\* self.versions[key].append(new_version); the lock is released
StoreWriteAppend(key, value) ==
  /\ versions' = [versions EXCEPT ![key] =
       Append(@, [value |-> value, version_id |-> version_counter,
                  key |-> key])]
  /\ vkeys' = IF \E i \in 1..Len(vkeys) : vkeys[i] = key
              THEN vkeys ELSE Append(vkeys, key)
  /\ store_lock' = 0

\* store.write(key, value) called by a thread: the locked counter bump
StoreWriteCall(t, key, value) ==
  /\ Idle(t)
  /\ StoreWriteInc(t)
  /\ Goto(t, "sw_app")
  /\ loc' = [loc EXCEPT ![t].key = key, ![t].value = value]
  /\ Silent
  /\ UNCHANGED <<versions, vkeys, gc_runs, txs, transactions, tx_counter, lock,
                 committed_count, aborted_count, latencies, written>>

\* store.write(key, value) called by a thread that then waits for the store
\* lock: the call
StoreWriteEnter(t, key, value) ==
  /\ Idle(t)
  /\ Goto(t, "sw_lock")
  /\ loc' = [loc EXCEPT ![t].key = key, ![t].value = value]
  /\ Silent
  /\ UNCHANGED <<shared, written>>

\* ... and with self.lock: self.version_counter += 1
StoreWriteAcquire(t) ==
  /\ pc[t] = "sw_lock"
  /\ StoreWriteInc(t)
  /\ Goto(t, "sw_app")
  /\ Silent
  /\ UNCHANGED <<versions, vkeys, gc_runs, txs, transactions, tx_counter, lock,
                 committed_count, aborted_count, latencies, loc, written>>

\* An append that needs the manager lock to be free while it holds the store
\* lock.
StoreWriteReturnNeedsManager(t) ==
  /\ pc[t] = "sw_app"
  /\ lock = 0
  /\ StoreWriteAppend(loc[t].key, loc[t].value)
  /\ Done(t)
  /\ UNCHANGED <<version_counter, gc_runs, txs, transactions, tx_counter, lock,
                 committed_count, aborted_count, latencies, written>>

\* store.write: the append and the return of self.version_counter
StoreWriteReturn(t) ==
  /\ pc[t] = "sw_app"
  /\ StoreWriteAppend(loc[t].key, loc[t].value)
  /\ Done(t)
  /\ UNCHANGED <<version_counter, gc_runs, txs, transactions, tx_counter, lock,
                 committed_count, aborted_count, latencies, written>>

\* -------------------------------------------------------- VersionStore.read
\* store.read(key, snapshot) called by a thread.  The call evaluates
\* self.versions.get(key, []) once and scans that list object.
StoreReadCall(t, key, snapshot) ==
  /\ Idle(t)
  /\ Return(t, "store.read", snapshot, key, "ok",
            StoreRead(versions, key, snapshot), FALSE)
  /\ UNCHANGED <<shared, written>>

\* ------------------------------------------------ begin_transaction
\* with self.lock: self.tx_counter += 1; tx_id = self.tx_counter
BeginLock(t) ==
  /\ Idle(t)
  /\ tx_counter < MaxTx
  /\ lock = 0
  /\ lock' = t
  /\ tx_counter' = tx_counter + 1
  /\ loc' = [loc EXCEPT ![t].tx = tx_counter + 1]
  /\ Goto(t, "b_snap")
  /\ Silent
  /\ UNCHANGED <<versions, vkeys, version_counter, store_lock, gc_runs, txs,
                 transactions, committed_count, aborted_count, latencies,
                 written>>

\* begin_transaction called by a thread that then waits for the manager
\* lock: the call
BeginEnter(t) ==
  /\ Idle(t)
  /\ tx_counter + Cardinality({u \in Threads : pc[u] = "b_lock"}) < MaxTx
  /\ Goto(t, "b_lock")
  /\ Silent
  /\ UNCHANGED <<shared, loc, written>>

\* ... and with self.lock: self.tx_counter += 1; tx_id = self.tx_counter
BeginAcquire(t) ==
  /\ pc[t] = "b_lock"
  /\ lock = 0
  /\ lock' = t
  /\ tx_counter' = tx_counter + 1
  /\ loc' = [loc EXCEPT ![t].tx = tx_counter + 1]
  /\ Goto(t, "b_snap")
  /\ Silent
  /\ UNCHANGED <<versions, vkeys, version_counter, store_lock, gc_runs, txs,
                 transactions, committed_count, aborted_count, latencies,
                 written>>

\* The value each key has in the store: that of its last version.
StoreView ==
  [k \in AllKeys |-> IF versions[k] = <<>> THEN NoneV
                     ELSE versions[k][Len(versions[k])].value]

\* snapshot = self.version_store.get_current_version()
BeginSnap(t) ==
  /\ pc[t] = "b_snap"
  /\ loc' = [loc EXCEPT ![t].min_snapshot = version_counter]
  /\ txs' = [txs EXCEPT ![loc[t].tx].view = StoreView]
  /\ Goto(t, "b_ins")
  /\ Silent
  /\ UNCHANGED <<versions, vkeys, version_counter, store_lock, gc_runs,
                 transactions, tx_counter, lock, committed_count,
                 aborted_count, latencies, written>>

\* tx = Transaction(tx_id, snapshot); self.transactions[tx_id] = tx; return
BeginInsert(t) ==
  /\ pc[t] = "b_ins"
  /\ txs' = [txs EXCEPT ![loc[t].tx] =
       [@ EXCEPT !.snapshot_version = loc[t].min_snapshot,
                 !.status = "active",
                 !.view_ret = StoreView]]
  /\ transactions' = transactions \cup {loc[t].tx}
  /\ lock' = 0
  /\ Done(t)
  /\ UNCHANGED <<versions, vkeys, version_counter, store_lock, gc_runs,
                 tx_counter, committed_count, aborted_count, latencies,
                 written>>

\* ------------------------------------------------ TransactionManager.read
\* tx.read(key, value, version_id): self.read_set[key] = (version_id, value)
RecordRead(tx, key, value, version_id) ==
  [tx EXCEPT !.read_set =
     DictSet(@, [key |-> key, version_id |-> version_id, value |-> value])]

\* if key in tx.write_set
ReadsBuffer(tx, key) == DictHas(tx.write_set, key)

\* A read that records a key it found absent, as read at version 0.
MgrReadRecordsNone(t, x, key) ==
  /\ Idle(t)
  /\ ~TxBusy(x)
  /\ IF x \notin transactions
     THEN KeyError(t, "read", x, key)
     ELSE IF ReadsBuffer(txs[x], key)
     THEN /\ Return(t, "read", x, key, "ok",
                    DictGet(txs[x].write_set, key).value, TRUE)
          /\ UNCHANGED <<shared, written>>
     ELSE LET value == StoreRead(versions, key, txs[x].snapshot_version)
          IN  IF value = NoneV
              THEN /\ Return(t, "read", x, key, "ok", NoneV, FALSE)
                   /\ txs' = [txs EXCEPT ![x] = RecordRead(@, key, NoneV, 0)]
                   /\ UNCHANGED <<versions, vkeys, version_counter,
                                  store_lock, gc_runs, transactions,
                                  tx_counter, lock, committed_count,
                                  aborted_count, latencies, written>>
              ELSE /\ Goto(t, "r_ver")
                   /\ loc' = [loc EXCEPT ![t].tx = x, ![t].key = key,
                                         ![t].value = value]
                   /\ Silent
                   /\ UNCHANGED <<shared, written>>

\* tx = self.transactions[tx_id]; the write-buffer lookup; else
\* value = self.version_store.read(key, tx.snapshot_version)
MgrRead(t, x, key) ==
  /\ Idle(t)
  /\ ~TxBusy(x)
  /\ IF x \notin transactions
     THEN KeyError(t, "read", x, key)
     ELSE IF ReadsBuffer(txs[x], key)
     THEN /\ Return(t, "read", x, key, "ok",
                    DictGet(txs[x].write_set, key).value, TRUE)
          /\ UNCHANGED <<shared, written>>
     ELSE LET value == StoreRead(versions, key, txs[x].snapshot_version)
          IN  IF value = NoneV
              THEN /\ Return(t, "read", x, key, "ok", NoneV, FALSE)
                   /\ UNCHANGED <<shared, written>>
              ELSE /\ Goto(t, "r_ver")
                   /\ loc' = [loc EXCEPT ![t].tx = x, ![t].key = key,
                                         ![t].value = value]
                   /\ Silent
                   /\ UNCHANGED <<shared, written>>

\* versions_list = get_all_versions(key); the scan for read_version;
\* tx.read(key, value, read_version); return value
MgrReadRecord(t) ==
  /\ pc[t] = "r_ver"
  /\ LET x == loc[t].tx
         read_version ==
           ReadVersionId(versions, loc[t].key, txs[x].snapshot_version)
     IN  txs' = [txs EXCEPT ![x] =
                   RecordRead(@, loc[t].key, loc[t].value, read_version)]
  /\ Return(t, "read", loc[t].tx, loc[t].key, "ok", loc[t].value, FALSE)
  /\ UNCHANGED <<versions, vkeys, version_counter, store_lock, gc_runs,
                 transactions, tx_counter, lock, committed_count,
                 aborted_count, latencies, written>>

\* ----------------------------------------------- TransactionManager.write
\* A write buffer that keeps the first value written to a key.
BufferWriteKeepsFirst(tx, key, value) ==
  [tx EXCEPT !.write_set = DictSetFirstWins(@, [key |-> key, value |-> value]),
             !.wrote = [@ EXCEPT ![key] = Append(@, value)]]

\* A buffered write that is also recorded as a read of the key.
BufferWriteRecordsRead(tx, key, value) ==
  [tx EXCEPT !.write_set = DictSet(@, [key |-> key, value |-> value]),
             !.wrote = [@ EXCEPT ![key] = Append(@, value)],
             !.read_set = DictSet(@, [key |-> key, version_id |-> NoneV,
                                      value |-> value])]

\* tx.write(key, value): self.write_set[key] = value
BufferWrite(tx, key, value) ==
  [tx EXCEPT !.write_set = DictSet(@, [key |-> key, value |-> value]),
             !.wrote = [@ EXCEPT ![key] = Append(@, value)]]

MgrWrite(t, x, key, value) ==
  /\ Idle(t)
  /\ ~TxBusy(x)
  /\ IF x \notin transactions
     THEN KeyError(t, "write", x, key)
     ELSE /\ txs' = [txs EXCEPT ![x] = BufferWrite(@, key, value)]
          /\ Done(t)
          /\ UNCHANGED <<versions, vkeys, version_counter, store_lock, gc_runs,
                         transactions, tx_counter, lock, committed_count,
                         aborted_count, latencies, written>>

\* ------------------------------------------------------ Transaction.abort
\* mgr.transactions[tx_id].abort(): self.status = 'aborted'
TxAbort(t, x) ==
  /\ Idle(t)
  /\ ~TxBusy(x)
  /\ IF x \notin transactions
     THEN KeyError(t, "abort", x, "a")
     ELSE /\ txs' = [txs EXCEPT ![x].status = "aborted"]
          /\ Done(t)
          /\ UNCHANGED <<versions, vkeys, version_counter, store_lock, gc_runs,
                         transactions, tx_counter, lock, committed_count,
                         aborted_count, latencies, written>>

\* ---------------------------------------------- TransactionManager.commit
\* A validation that fails also when the key's latest version is the one read.
ConflictAtEqual(entry, vs) ==
  /\ vs[entry.key] # <<>>
  /\ entry.version_id # NoneV
  /\ vs[entry.key][Len(vs[entry.key])].version_id >= entry.version_id

\* latest_versions and read_version is not None and latest_id > read_version
Conflict(entry, vs) ==
  /\ vs[entry.key] # <<>>
  /\ entry.version_id # NoneV
  /\ vs[entry.key][Len(vs[entry.key])].version_id > entry.version_id

\* tx = self.transactions[tx_id]
MgrCommit(t, x) ==
  /\ Idle(t)
  /\ ~TxBusy(x)
  /\ IF x \notin transactions
     THEN KeyError(t, "commit", x, "a")
     ELSE /\ Goto(t, IF txs[x].read_set = <<>> THEN "c_lock" ELSE "c_val")
          /\ loc' = [loc EXCEPT ![t].tx = x, ![t].i = 1]
          /\ Silent
          /\ UNCHANGED <<shared, written>>

\* one iteration of the validation loop; on a conflict, tx.abort()
CommitValidate(t) ==
  /\ pc[t] = "c_val"
  /\ LET x == loc[t].tx
         entry == txs[x].read_set[loc[t].i]
     IN  IF Conflict(entry, versions)
         THEN /\ txs' = [txs EXCEPT ![x].status = "aborted"]
              /\ Goto(t, "c_abfin")
              /\ UNCHANGED loc
         ELSE /\ IF loc[t].i < Len(txs[x].read_set)
                 THEN /\ loc' = [loc EXCEPT ![t].i = @ + 1]
                      /\ UNCHANGED pc
                 ELSE /\ Goto(t, "c_lock")
                      /\ UNCHANGED loc
              /\ UNCHANGED txs
  /\ Silent
  /\ UNCHANGED <<versions, vkeys, version_counter, store_lock, gc_runs,
                 transactions, tx_counter, lock, committed_count,
                 aborted_count, latencies, written>>

\* self.aborted_count += 1; self.latencies.append(...);
\* del self.transactions[tx_id]; return False
CommitAbortFinish(t) ==
  /\ pc[t] = "c_abfin"
  /\ aborted_count' = aborted_count + 1
  /\ latencies' = Append(latencies, loc[t].tx)
  /\ transactions' = transactions \ {loc[t].tx}
  /\ Done(t)
  /\ UNCHANGED <<versions, vkeys, version_counter, store_lock, gc_runs, txs,
                 tx_counter, lock, committed_count, written>>

\* An apply loop entered without the manager lock.
CommitLockUnlocked(t) ==
  /\ pc[t] = "c_lock"
  /\ IF txs[loc[t].tx].write_set = <<>>
     THEN Goto(t, "c_mark") /\ UNCHANGED <<lock, loc>>
     ELSE /\ lock' = lock
          /\ loc' = [loc EXCEPT ![t].i = 1]
          /\ Goto(t, "c_inc")
  /\ Silent
  /\ UNCHANGED <<versions, vkeys, version_counter, store_lock, gc_runs, txs,
                 transactions, tx_counter, committed_count, aborted_count,
                 latencies, written>>

\* with self.lock: (an empty write set releases it at once)
CommitLock(t) ==
  /\ pc[t] = "c_lock"
  /\ lock = 0
  /\ IF txs[loc[t].tx].write_set = <<>>
     THEN Goto(t, "c_mark") /\ UNCHANGED <<lock, loc>>
     ELSE /\ lock' = t
          /\ loc' = [loc EXCEPT ![t].i = 1]
          /\ Goto(t, "c_inc")
  /\ Silent
  /\ UNCHANGED <<versions, vkeys, version_counter, store_lock, gc_runs, txs,
                 transactions, tx_counter, committed_count, aborted_count,
                 latencies, written>>

\* self.version_store.write(key, value): the locked counter bump
CommitWriteInc(t) ==
  /\ pc[t] = "c_inc"
  /\ StoreWriteInc(t)
  /\ Goto(t, "c_app")
  /\ Silent
  /\ UNCHANGED <<versions, vkeys, gc_runs, txs, transactions, tx_counter, lock,
                 committed_count, aborted_count, latencies, loc, written>>

\* self.version_store.write(key, value): the append; then the next key of
\* the write set, or the release of the manager lock
CommitWriteAppend(t) ==
  /\ pc[t] = "c_app"
  /\ LET x == loc[t].tx
         w == txs[x].write_set[loc[t].i]
     IN  /\ StoreWriteAppend(w.key, w.value)
         /\ written' = [written EXCEPT ![x] = @ \cup {version_counter}]
         /\ IF loc[t].i < Len(txs[x].write_set)
            THEN /\ loc' = [loc EXCEPT ![t].i = @ + 1]
                 /\ Goto(t, "c_inc")
                 /\ UNCHANGED lock
            ELSE /\ lock' = 0
                 /\ Goto(t, "c_mark")
                 /\ UNCHANGED loc
  /\ Silent
  /\ UNCHANGED <<version_counter, gc_runs, txs, transactions, tx_counter,
                 committed_count, aborted_count, latencies>>

\* tx.commit(): self.status = 'committed'
CommitMark(t) ==
  /\ pc[t] = "c_mark"
  /\ txs' = [txs EXCEPT ![loc[t].tx].status = "committed"]
  /\ Goto(t, "c_fin")
  /\ Silent
  /\ UNCHANGED <<versions, vkeys, version_counter, store_lock, gc_runs,
                 transactions, tx_counter, lock, committed_count,
                 aborted_count, latencies, loc, written>>

\* self.committed_count += 1; self.latencies.append(...);
\* del self.transactions[tx_id]; return True
CommitFinish(t) ==
  /\ pc[t] = "c_fin"
  /\ committed_count' = committed_count + 1
  /\ latencies' = Append(latencies, loc[t].tx)
  /\ transactions' = transactions \ {loc[t].tx}
  /\ Done(t)
  /\ UNCHANGED <<versions, vkeys, version_counter, store_lock, gc_runs, txs,
                 tx_counter, lock, aborted_count, written>>

\* ------------------------------------ TransactionManager.garbage_collect
GcPcs == {"g_cur", "g_min", "g_lock", "g_scan", "g_build", "g_install"}

\* min(t.snapshot_version for t in self.transactions.values())
MinSnapshot(live) ==
  CHOOSE m \in {txs[x].snapshot_version : x \in live} :
    \A x \in live : m <= txs[x].snapshot_version

\* A rebuild that keeps only the versions newer than min_snapshot.
RetainedNewerOnly(list, visible, min_snapshot) ==
  SelectSeq(list, LAMBDA v : v.version_id > min_snapshot)

\* keep if v == visible_version or v.version_id > min_snapshot
Retained(list, visible, min_snapshot) ==
  SelectSeq(list, LAMBDA v : v.version_id = visible
                             \/ v.version_id > min_snapshot)

\* if not self.transactions:
GcCall(t) ==
  /\ Idle(t)
  /\ Goto(t, IF transactions = {} THEN "g_cur" ELSE "g_min")
  /\ Silent
  /\ UNCHANGED <<shared, loc, written>>

\* A gc that protects every version when no transaction is live.
GcCurrentKeepsAll(t) ==
  /\ pc[t] = "g_cur"
  /\ loc' = [loc EXCEPT ![t].min_snapshot = 0]
  /\ Goto(t, "g_lock")
  /\ Silent
  /\ UNCHANGED <<shared, written>>

\* min_snapshot = self.version_store.get_current_version()
GcCurrent(t) ==
  /\ pc[t] = "g_cur"
  /\ loc' = [loc EXCEPT ![t].min_snapshot = version_counter]
  /\ Goto(t, "g_lock")
  /\ Silent
  /\ UNCHANGED <<shared, written>>

\* min_snapshot = min(...): ValueError when the live set has become empty
GcMin(t) ==
  /\ pc[t] = "g_min"
  /\ IF transactions = {}
     THEN Return(t, "gc", 0, "a", "ValueError", NoneV, FALSE)
     ELSE /\ loc' = [loc EXCEPT ![t].min_snapshot = MinSnapshot(transactions)]
          /\ Goto(t, "g_lock")
          /\ Silent
  /\ UNCHANGED <<shared, written>>

\* The end of the cleanup loop: the lock is released, gc_runs += 1, return.
GcFinish(t, collected) ==
  /\ lock' = 0
  /\ gc_runs' = gc_runs + 1
  /\ Return(t, "gc", 0, "a", "ok", collected, FALSE)

\* with self.lock: for key in list(self.version_store.versions.keys()):
GcLock(t) ==
  /\ pc[t] = "g_lock"
  /\ lock = 0
  /\ IF vkeys = <<>>
     THEN GcFinish(t, 0)
     ELSE /\ lock' = t
          /\ loc' = [loc EXCEPT ![t].keys = vkeys, ![t].i = 1]
          /\ Goto(t, "g_scan")
          /\ Silent
          /\ UNCHANGED gc_runs
  /\ UNCHANGED <<versions, vkeys, version_counter, store_lock, txs,
                 transactions, tx_counter, committed_count, aborted_count,
                 latencies, written>>

\* versions = self.version_store.versions[key]; the reversed scan for the
\* version visible to min_snapshot
GcScan(t) ==
  /\ pc[t] = "g_scan"
  /\ LET key == loc[t].keys[loc[t].i]
     IN  IF versions[key] = <<>>
         THEN IF loc[t].i < Len(loc[t].keys)
              THEN /\ loc' = [loc EXCEPT ![t].i = @ + 1]
                   /\ Silent
                   /\ UNCHANGED <<pc, lock, gc_runs>>
              ELSE GcFinish(t, loc[t].collected)
         ELSE /\ loc' = [loc EXCEPT ![t].visible =
                    ReadVersionId(versions, key, loc[t].min_snapshot)]
              /\ Goto(t, "g_build")
              /\ Silent
              /\ UNCHANGED <<lock, gc_runs>>
  /\ UNCHANGED <<versions, vkeys, version_counter, store_lock, txs,
                 transactions, tx_counter, committed_count, aborted_count,
                 latencies, written>>

\* for v in versions: ... new_versions.append(v)
GcBuild(t) ==
  /\ pc[t] = "g_build"
  /\ loc' = [loc EXCEPT ![t].new_versions =
       Retained(versions[loc[t].keys[loc[t].i]], loc[t].visible,
                loc[t].min_snapshot)]
  /\ Goto(t, "g_install")
  /\ Silent
  /\ UNCHANGED <<shared, written>>

\* old_count = len(versions); self.version_store.versions[key] = new_versions;
\* collected += ...; del of an empty list; then the next key, or the end
GcInstall(t) ==
  /\ pc[t] = "g_install"
  /\ LET key == loc[t].keys[loc[t].i]
         new_versions == loc[t].new_versions
         collected == loc[t].collected + Len(versions[key]) - Len(new_versions)
     IN  /\ versions' = [versions EXCEPT ![key] = new_versions]
         /\ vkeys' = IF new_versions = <<>>
                     THEN SelectSeq(vkeys, LAMBDA k : k # key) ELSE vkeys
         /\ IF loc[t].i < Len(loc[t].keys)
            THEN /\ loc' = [loc EXCEPT ![t].i = @ + 1,
                                       ![t].collected = collected,
                                       ![t].visible = NoneV,
                                       ![t].new_versions = <<>>]
                 /\ Goto(t, "g_scan")
                 /\ Silent
                 /\ UNCHANGED <<lock, gc_runs>>
            ELSE GcFinish(t, collected)
  /\ UNCHANGED <<version_counter, store_lock, txs, transactions, tx_counter,
                 committed_count, aborted_count, latencies, written>>

\* ------------------------------------------------------------ specification
\* The steps of the operations under way.
ContinueStoreWrite(t) == StoreWriteReturn(t) /\ UNCHANGED job

ContinueBegin(t) ==
  \/ BeginSnap(t) /\ UNCHANGED job
  \/ BeginInsert(t) /\ UNCHANGED job

ContinueRead(t) == MgrReadRecord(t) /\ UNCHANGED job

\* commit: the validation, the lock, the status and the counters
ContinueCommit(t) ==
  \/ CommitValidate(t) /\ UNCHANGED job
  \/ CommitLock(t) /\ UNCHANGED job
  \/ CommitMark(t) /\ UNCHANGED job
  \/ CommitFinish(t) /\ UNCHANGED job

\* commit: the return of a failed validation
ContinueCommitAbort(t) == CommitAbortFinish(t) /\ UNCHANGED job

\* commit: the writes of a write set that is not empty
ContinueCommitApply(t) ==
  \/ CommitWriteInc(t) /\ UNCHANGED job
  \/ CommitWriteAppend(t) /\ UNCHANGED job

\* gc: min_snapshot when no transaction is live, or else
ContinueGcCurrent(t) == GcCurrent(t) /\ UNCHANGED job

ContinueGcMin(t) == GcMin(t) /\ UNCHANGED job

\* gc: the cleanup loop
ContinueGc(t) ==
  \/ GcLock(t) /\ UNCHANGED job
  \/ GcScan(t) /\ UNCHANGED job
  \/ GcBuild(t) /\ UNCHANGED job
  \/ GcInstall(t) /\ UNCHANGED job

\* The store writes thread u's commit has still to start.
PendingWrites(u) ==
  IF pc[u] \in {"c_val", "c_lock"} THEN Len(txs[loc[u].tx].write_set)
  ELSE IF pc[u] = "c_inc" THEN Len(txs[loc[u].tx].write_set) - loc[u].i + 1
  ELSE IF pc[u] = "c_app" THEN Len(txs[loc[u].tx].write_set) - loc[u].i
  ELSE 0

RECURSIVE SumPending(_)
SumPending(S) ==
  IF S = {} THEN 0
  ELSE LET u == CHOOSE u \in S : TRUE
       IN  PendingWrites(u) + SumPending(S \ {u})

\* The version ids still free once every running commit has applied.
FreeVersions == MaxVersion - version_counter - SumPending(Threads)

\* A direct store write stores a value no earlier write stored.
FreshValue == 10 + version_counter + 1

\* A writer calls store.write.
WriterCall(t) ==
  /\ job[t].role = "writer"
  /\ FreeVersions > 0
  /\ \E key \in Keys : StoreWriteCall(t, key, FreshValue)
  /\ UNCHANGED job

\* A collector calls mgr.garbage_collect.
CollectorCall(t) ==
  /\ job[t].role = "collector"
  /\ gc_runs + Cardinality({u \in Threads : pc[u] \in GcPcs}) < MaxGc
  /\ GcCall(t)
  /\ UNCHANGED job

\* The read and write calls a thread makes on one transaction.
Budget(t) == IF job[t].role = "author" THEN MaxAuthorOps ELSE MaxOps

\* A transaction's owner begins it, ...
CallBegin(t) ==
  /\ job[t].tx = 0
  /\ BeginLock(t)
  /\ job' = [job EXCEPT ![t].tx = tx_counter + 1, ![t].ops = 0]

\* ... reads and writes through it, ...
CallRead(t) ==
  /\ job[t].tx # 0
  /\ job[t].ops < Budget(t)
  /\ \E key \in Keys : MgrRead(t, job[t].tx, key)
  /\ job' = [job EXCEPT ![t].ops = @ + 1]

CallWrite(t) ==
  /\ job[t].tx # 0
  /\ job[t].ops < Budget(t)
  /\ \E key \in Keys, value \in Values : MgrWrite(t, job[t].tx, key, value)
  /\ job' = [job EXCEPT ![t].ops = @ + 1]

\* ... may call Transaction.abort on it, ...
CallAbort(t) ==
  /\ job[t].tx # 0
  /\ txs[job[t].tx].status = "active"
  /\ TxAbort(t, job[t].tx)
  /\ UNCHANGED job

\* ... and commits it.
CallCommit(t) ==
  /\ job[t].tx # 0
  /\ FreeVersions >= Len(txs[job[t].tx].write_set)
  /\ MgrCommit(t, job[t].tx)
  /\ job' = [job EXCEPT ![t].tx = 0, ![t].ops = 0]

\* A client runs transactions of its own, one after the other.
ClientCall(t) ==
  \/ job[t].role = "client" /\ CallBegin(t)
  \/ job[t].role = "client" /\ CallRead(t)
  \/ job[t].role = "client" /\ CallWrite(t)
  \/ job[t].role = "client" /\ CallAbort(t)
  \/ job[t].role = "client" /\ CallCommit(t)

\* An author runs one transaction, which it never aborts by hand.
AuthorCall(t) ==
  \/ /\ job[t].role = "author"
     /\ ~job[t].begun
     /\ BeginLock(t)
     /\ job' = [job EXCEPT ![t].tx = tx_counter + 1, ![t].begun = TRUE]
  \/ job[t].role = "author" /\ CallRead(t)
  \/ job[t].role = "author" /\ CallWrite(t)
  \/ job[t].role = "author" /\ CallCommit(t)

\* A reader runs read-only transactions of its own, one after the other.
ReaderCall(t) ==
  \/ job[t].role = "reader" /\ CallBegin(t)
  \/ job[t].role = "reader" /\ CallRead(t)
  \/ job[t].role = "reader" /\ CallCommit(t)

\* A starter begins transactions and leaves them live.
StarterCall(t) ==
  /\ job[t].role = "starter"
  /\ BeginLock(t)
  /\ UNCHANGED job

\* A lookup reads the store directly, at any snapshot.
LookupCall(t) ==
  /\ job[t].role = "lookup"
  /\ \E key \in Keys, snapshot \in 0..MaxVersion :
       StoreReadCall(t, key, snapshot)
  /\ UNCHANGED job

\* A stranger makes read, write and commit calls that name a transaction that
\* is not live.
StrangerCall(t) ==
  \/ /\ job[t].role = "stranger"
     /\ \E x \in TxIds \ transactions, key \in Keys : MgrRead(t, x, key)
     /\ UNCHANGED job
  \/ /\ job[t].role = "stranger"
     /\ \E x \in TxIds \ transactions, key \in Keys, value \in Values :
          MgrWrite(t, x, key, value)
     /\ UNCHANGED job
  \/ /\ job[t].role = "stranger"
     /\ \E x \in TxIds \ transactions : MgrCommit(t, x)
     /\ UNCHANGED job

\* A tester is the one thread of a test function: it makes its calls one
\* after the other.  It writes to the store, ...
TesterCall(t) ==
  /\ job[t].role = "tester"
  /\ FreeVersions > 0
  /\ \E key \in Keys : StoreWriteCall(t, key, FreshValue)
  /\ UNCHANGED job

\* ... runs one transaction, ...
TesterTransact(t) ==
  \/ /\ job[t].role = "tester"
     /\ ~job[t].begun
     /\ BeginLock(t)
     /\ job' = [job EXCEPT ![t].tx = tx_counter + 1, ![t].begun = TRUE]
  \/ /\ job[t].role = "tester"
     /\ job[t].tx \in transactions
     /\ job[t].ops < MaxTesterOps
     /\ \E key \in Keys : MgrRead(t, job[t].tx, key)
     /\ job' = [job EXCEPT ![t].ops = @ + 1]
  \/ /\ job[t].role = "tester"
     /\ job[t].tx \in transactions
     /\ job[t].ops < MaxTesterOps
     /\ \E key \in Keys, value \in Values : MgrWrite(t, job[t].tx, key, value)
     /\ job' = [job EXCEPT ![t].ops = @ + 1]
  \/ /\ job[t].role = "tester"
     /\ job[t].tx \in transactions
     /\ FreeVersions >= Len(txs[job[t].tx].write_set)
     /\ MgrCommit(t, job[t].tx)
     /\ UNCHANGED job

\* ... begins transactions that stay live, and collects garbage.
TesterCollect(t) ==
  \/ /\ job[t].role = "tester"
     /\ BeginLock(t)
     /\ UNCHANGED job
  \/ /\ job[t].role = "tester"
     /\ gc_runs < MaxGc
     /\ GcCall(t)
     /\ job' = [job EXCEPT ![t].before = versions]

\* An inserter runs one transaction: it reads a key, writes the key and
\* commits.
InserterCall(t) ==
  \/ /\ job[t].role = "inserter"
     /\ ~job[t].begun
     /\ BeginLock(t)
     /\ job' = [job EXCEPT ![t].tx = tx_counter + 1, ![t].begun = TRUE]
  \/ /\ job[t].role = "inserter"
     /\ job[t].begun
     /\ job[t].ops = 0
     /\ \E key \in Keys :
          /\ MgrRead(t, job[t].tx, key)
          /\ job' = [job EXCEPT ![t].ops = 1, ![t].from = key,
                                ![t].read_none =
                                  (ev'.op = "read" /\ ev'.val = NoneV)]
  \/ /\ job[t].role = "inserter"
     /\ job[t].ops = 1
     /\ \E value \in Values : MgrWrite(t, job[t].tx, job[t].from, value)
     /\ job' = [job EXCEPT ![t].ops = 2]
  \/ /\ job[t].role = "inserter"
     /\ job[t].ops = 2
     /\ FreeVersions >= Len(txs[job[t].tx].write_set)
     /\ MgrCommit(t, job[t].tx)
     /\ job' = [job EXCEPT ![t].ops = 3]

\* The inserter's commit call has returned.
InserterDone(t) == job[t].ops = 3 /\ pc[t] = "idle"

\* ---- threads whose calls wait for the locks
\* The lock acquisitions of the calls under way.
ContinueAcquire(t) ==
  \/ StoreWriteAcquire(t) /\ UNCHANGED job
  \/ BeginAcquire(t) /\ job' = [job EXCEPT ![t].tx = tx_counter + 1]

\* The store writes that threads are waiting to make.
WaitingWrites == Cardinality({u \in Threads : pc[u] = "sw_lock"})

\* A pusher calls store.write on one key.
PusherCall(t) ==
  /\ job[t].role = "pusher"
  /\ FreeVersions - WaitingWrites > 0
  /\ StoreWriteEnter(t, "a", FreshValue + WaitingWrites)
  /\ UNCHANGED job

\* A locker runs one transaction: it begins it, reads a key, writes its
\* transaction id to the key and commits.
LockerCall(t) ==
  \/ /\ job[t].role = "locker"
     /\ ~job[t].begun
     /\ BeginEnter(t)
     /\ job' = [job EXCEPT ![t].begun = TRUE]
  \/ /\ job[t].role = "locker"
     /\ job[t].tx \in transactions
     /\ job[t].ops = 0
     /\ \E key \in Keys :
          /\ MgrRead(t, job[t].tx, key)
          /\ job' = [job EXCEPT ![t].ops = 1, ![t].from = key]
  \/ /\ job[t].role = "locker"
     /\ job[t].ops = 1
     /\ MgrWrite(t, job[t].tx, job[t].from, job[t].tx)
     /\ job' = [job EXCEPT ![t].ops = 2]
  \/ /\ job[t].role = "locker"
     /\ job[t].ops = 2
     /\ FreeVersions - WaitingWrites >= Len(txs[job[t].tx].write_set)
     /\ MgrCommit(t, job[t].tx)
     /\ job' = [job EXCEPT ![t].ops = 3]

\* ---- the worker of test_concurrent_transactions, one transfer long
\* from_acc, to_acc, amount are drawn; if from_acc == to_acc: continue;
\* tx = mgr.begin_transaction()
WorkerBegin(t) ==
  /\ job[t].role = "worker"
  /\ job[t].ops = 0
  /\ \E from \in AllKeys, to \in AllKeys, amount \in Amounts :
       /\ from # to
       /\ BeginLock(t)
       /\ job' = [job EXCEPT ![t].tx = tx_counter + 1, ![t].ops = 1,
                             ![t].from = from, ![t].to = to,
                             ![t].amount = amount]

\* from_bal = mgr.read(tx, from); to_bal = mgr.read(tx, to): the calls
WorkerRead(t) ==
  /\ job[t].role = "worker"
  /\ job[t].ops \in {1, 2}
  /\ MgrRead(t, job[t].tx, IF job[t].ops = 1 THEN job[t].from ELSE job[t].to)
  /\ UNCHANGED job

\* ... and their returns
WorkerReadReturn(t) ==
  /\ job[t].role = "worker"
  /\ MgrReadRecord(t)
  /\ job' = [job EXCEPT ![t] =
       IF job[t].ops = 1
       THEN [@ EXCEPT !.from_bal = ev'.val, !.ops = 2]
       ELSE [@ EXCEPT !.to_bal = ev'.val,
                      !.ops = IF job[t].from_bal >= job[t].amount
                              THEN 3 ELSE 6]]

\* if from_bal >= amount: mgr.write(tx, from, from_bal - amount);
\* mgr.write(tx, to, to_bal + amount)
WorkerWrite(t) ==
  /\ job[t].role = "worker"
  /\ job[t].ops \in {3, 4}
  /\ IF job[t].ops = 3
     THEN MgrWrite(t, job[t].tx, job[t].from, job[t].from_bal - job[t].amount)
     ELSE MgrWrite(t, job[t].tx, job[t].to, job[t].to_bal + job[t].amount)
  /\ job' = [job EXCEPT ![t].ops = @ + 1]

\* mgr.commit(tx)
WorkerCommit(t) ==
  /\ job[t].role = "worker"
  /\ job[t].ops = 5
  /\ MgrCommit(t, job[t].tx)
  /\ job' = [job EXCEPT ![t].ops = 6]

WorkerCall(t) ==
  \/ WorkerBegin(t)
  \/ WorkerRead(t)
  \/ WorkerWrite(t)
  \/ WorkerCommit(t)

\* The worker has left its loop and no call of it is under way.
WorkerDone(t) == job[t].ops = 6 /\ pc[t] = "idle"

Roles(r1, r2, r3) == [t \in Threads |-> IF t = 1 THEN r1
                                        ELSE IF t = 2 THEN r2 ELSE r3]

\* Two clients on a store that holds one version of key a.
InitClients == Start(<<"a">>, <<11>>, Roles("client", "client", "off"))

NextClients ==
  \E t \in Threads :
    \/ ClientCall(t)
    \/ ContinueBegin(t)
    \/ ContinueRead(t)
    \/ ContinueCommit(t)
    \/ ContinueCommitAbort(t)
    \/ ContinueCommitApply(t)

SpecClients == InitClients /\ [][NextClients]_vars

\* A reader, a collector and a writer on a store that holds one version of
\* key a.
InitGc == Start(<<"a">>, <<11>>, Roles("reader", "collector", "writer"))

NextGc ==
  \E t \in Threads :
    \/ ReaderCall(t)
    \/ CollectorCall(t)
    \/ WriterCall(t)
    \/ ContinueBegin(t)
    \/ ContinueRead(t)
    \/ ContinueCommit(t)
    \/ ContinueCommitAbort(t)
    \/ ContinueGcCurrent(t)
    \/ ContinueGcMin(t)
    \/ ContinueGc(t)
    \/ ContinueStoreWrite(t)

SpecGc == InitGc /\ [][NextGc]_vars

\* An author and a stranger on a store that holds one version of key a.
InitSolo == Start(<<"a">>, <<11>>, Roles("author", "stranger", "off"))

NextSolo ==
  \E t \in Threads :
    \/ AuthorCall(t)
    \/ StrangerCall(t)
    \/ ContinueBegin(t)
    \/ ContinueRead(t)
    \/ ContinueCommit(t)
    \/ ContinueCommitApply(t)

SpecSolo == InitSolo /\ [][NextSolo]_vars

\* An author and two starters on a store that holds one version of key a.
InitCommit == Start(<<"a">>, <<11>>, Roles("author", "starter", "starter"))

NextCommit ==
  \E t \in Threads :
    \/ AuthorCall(t)
    \/ StarterCall(t)
    \/ ContinueBegin(t)
    \/ ContinueRead(t)
    \/ ContinueCommit(t)
    \/ ContinueCommitApply(t)

SpecCommit == InitCommit /\ [][NextCommit]_vars

\* A writer, a collector and a lookup on an empty store.
InitStore == Start(<<>>, <<>>, Roles("writer", "collector", "lookup"))

NextStore ==
  \E t \in Threads :
    \/ WriterCall(t)
    \/ CollectorCall(t)
    \/ LookupCall(t)
    \/ ContinueStoreWrite(t)
    \/ ContinueGcCurrent(t)
    \/ ContinueGc(t)

SpecStore == InitStore /\ [][NextStore]_vars

\* Two transfer workers on three accounts that hold OpeningBalance each.
InitTransfer ==
  Start(<<"a", "b", "c">>,
        <<OpeningBalance, OpeningBalance, OpeningBalance>>,
        Roles("worker", "worker", "off"))

NextTransfer ==
  \E t \in Threads :
    \/ WorkerCall(t)
    \/ WorkerReadReturn(t)
    \/ ContinueBegin(t)
    \/ ContinueCommit(t)
    \/ ContinueCommitAbort(t)
    \/ ContinueCommitApply(t)

SpecTransfer == InitTransfer /\ [][NextTransfer]_vars

\* One tester on an empty store: every call runs from its start to its return
\* with no other call in between.  The tester runs a transaction among its
\* store writes, ...
InitTester == Start(<<>>, <<>>, Roles("tester", "off", "off"))

NextTester ==
  \E t \in Threads :
    \/ TesterCall(t)
    \/ TesterTransact(t)
    \/ ContinueStoreWrite(t)
    \/ ContinueBegin(t)
    \/ ContinueRead(t)
    \/ ContinueCommit(t)
    \/ ContinueCommitAbort(t)
    \/ ContinueCommitApply(t)

SpecTester == InitTester /\ [][NextTester]_vars

\* ... or collects garbage among transactions that stay live.
InitCollect == Start(<<>>, <<>>, Roles("tester", "off", "off"))

NextCollect ==
  \E t \in Threads :
    \/ TesterCall(t)
    \/ TesterCollect(t)
    \/ ContinueStoreWrite(t)
    \/ ContinueBegin(t)
    \/ ContinueGcCurrent(t)
    \/ ContinueGcMin(t)
    \/ ContinueGc(t)

SpecCollect == InitCollect /\ [][NextCollect]_vars

\* Two inserters on an empty store.
InitInsert == Start(<<>>, <<>>, Roles("inserter", "inserter", "off"))

NextInsert ==
  \E t \in Threads :
    \/ InserterCall(t)
    \/ ContinueBegin(t)
    \/ ContinueRead(t)
    \/ ContinueCommit(t)
    \/ ContinueCommitApply(t)

SpecInsert == InitInsert /\ [][NextInsert]_vars

\* An inserter, a writer and a collector on an empty store.
InitMix == Start(<<>>, <<>>, Roles("inserter", "writer", "collector"))

NextMix ==
  \E t \in Threads :
    \/ InserterCall(t)
    \/ WriterCall(t)
    \/ CollectorCall(t)
    \/ ContinueBegin(t)
    \/ ContinueRead(t)
    \/ ContinueCommit(t)
    \/ ContinueCommitAbort(t)
    \/ ContinueCommitApply(t)
    \/ ContinueStoreWrite(t)
    \/ ContinueGcCurrent(t)
    \/ ContinueGcMin(t)
    \/ ContinueGc(t)

SpecMix == InitMix /\ [][NextMix]_vars

\* A locker, a pusher and a collector on an empty store, whose calls wait for
\* the locks; a thread that can take a step of its call takes one.
InitLocks == Start(<<>>, <<>>, Roles("locker", "pusher", "collector"))

\* The steps of the call of thread t that is under way.
ThreadStep(t) ==
  \/ ContinueAcquire(t)
  \/ ContinueStoreWrite(t)
  \/ ContinueBegin(t)
  \/ ContinueRead(t)
  \/ ContinueCommit(t)
  \/ ContinueCommitAbort(t)
  \/ ContinueCommitApply(t)
  \/ ContinueGcCurrent(t)
  \/ ContinueGcMin(t)
  \/ ContinueGc(t)

NextLocks ==
  \E t \in Threads :
    \/ LockerCall(t)
    \/ PusherCall(t)
    \/ CollectorCall(t)
    \/ ThreadStep(t)

SpecLocks ==
  /\ InitLocks
  /\ [][NextLocks]_vars
  /\ \A t \in Threads : WF_vars(ThreadStep(t))

\* ------------------------------------------------------------------ claims
\* The commit call of transaction x has returned success.
CommitSucceeded(x) == txs[x].status = "committed" /\ x \notin transactions

\* C1. First-committer-wins: of two transactions that began at the same
\* snapshot, both read key k from the store and both buffered a write to k,
\* at most one commit returns success.
C1_FirstCommitterWins ==
  \A x, y \in TxIds : \A k \in Keys :
    ( /\ x # y
      /\ txs[x].status # "unborn" /\ txs[y].status # "unborn"
      /\ txs[x].snapshot_version = txs[y].snapshot_version
      /\ DictHas(txs[x].read_set, k) /\ DictHas(txs[y].read_set, k)
      /\ DictHas(txs[x].write_set, k) /\ DictHas(txs[y].write_set, k) )
    => ~(CommitSucceeded(x) /\ CommitSucceeded(y))

\* C3. Snapshot stability: a read of a key the transaction has not written
\* returns the value the key had in the store when the transaction began
\* (when begin_transaction read the counter, or when it returned).
C3_SnapshotStable ==
  (ev.op = "read" /\ ev.kind = "ok" /\ ~ev.buffered)
    => ev.val \in {txs[ev.tx].view[ev.key], txs[ev.tx].view_ret[ev.key]}

\* C5. GC safety: the step of gc() that installs a key's new version list
\* changes no read at the snapshot of a live transaction.
C5_GcSafety ==
  [][\A t \in Threads :
       (pc[t] = "g_install" /\ pc'[t] # "g_install")
         => \A x \in transactions : \A k \in Keys :
              StoreRead(versions', k, txs[x].snapshot_version)
                = StoreRead(versions, k, txs[x].snapshot_version)]_vars

\* C6. Aborted transactions leave no trace: while a transaction's status is
\* aborted, no version is appended and the version counter is not
\* incremented on its behalf.
C6_AbortedLeavesNoTrace ==
  [][\A x \in TxIds :
       txs[x].status = "aborted"
         => /\ written'[x] = written[x]
            /\ \A t \in Threads :
                 (pc[t] = "c_inc" /\ pc'[t] = "c_app" /\ loc[t].tx = x)
                   => version_counter' = version_counter]_vars

\* C7. Terminal states are final: a status of committed or aborted never
\* changes.
C7_TerminalFinal ==
  [][\A x \in TxIds :
       txs[x].status \in {"committed", "aborted"}
         => txs'[x].status = txs[x].status]_vars

RECURSIVE TotalMoney(_)
\* The sum over the accounts S of store.read(account, current_version()).
TotalMoney(S) ==
  IF S = {} THEN 0
  ELSE LET k == CHOOSE k \in S : TRUE
       IN  StoreRead(versions, k, version_counter) + TotalMoney(S \ {k})

\* C2. Money conservation: once every transfer worker has finished, the
\* balances read at the current version add up to the opening total.
C2_MoneyConserved ==
  (\A t \in Threads : job[t].role = "worker" => WorkerDone(t))
    => TotalMoney(AllKeys) = Cardinality(AllKeys) * OpeningBalance

\* C4. Atomic multi-key commit visibility: no transaction returned by
\* begin_transaction has a snapshot that is at least one version id written
\* by a commit and smaller than another, at any point of that commit's apply
\* loop; and when begin_transaction reads the counter after a commit has
\* returned success, the snapshot is at least every id the commit wrote.
C4_AtomicVisibility ==
  [][/\ \A x, c \in TxIds :
          (x # c /\ txs'[x].status # "unborn")
            => ~\E i, j \in written'[c] :
                  i <= txs'[x].snapshot_version
                    /\ txs'[x].snapshot_version < j
     /\ \A t \in Threads :
          (pc[t] = "b_snap" /\ pc'[t] = "b_ins")
            => \A c \in TxIds :
                 CommitSucceeded(c)
                   => \A i \in written[c] : i <= loc'[t].min_snapshot]_vars

\* A commit that wrote two versions returned success and a transaction that
\* began after it is live.
C4_Witness ==
  \E c, x \in TxIds :
    /\ x # c
    /\ Cardinality(written[c]) >= 2
    /\ CommitSucceeded(c)
    /\ x \in transactions
    /\ \A i \in written[c] : i <= txs[x].snapshot_version

\* The value of the last mgr.write(x, key, _) call (NoneV: there was none).
LastWritten(x, key) ==
  IF txs[x].wrote[key] = <<>> THEN NoneV
  ELSE txs[x].wrote[key][Len(txs[x].wrote[key])]

\* C8. Read-your-writes: a read of a key by a live transaction that has
\* written the key returns the value of the last such write and leaves the
\* transaction's read set as it was.
C8_ReadYourWrites ==
  [][(ev'.op = "read" /\ ev'.kind = "ok"
        /\ txs[ev'.tx].wrote[ev'.key] # <<>>)
       => /\ ev'.val = LastWritten(ev'.tx, ev'.key)
          /\ txs'[ev'.tx].read_set = txs[ev'.tx].read_set]_vars

\* A read returns the second of two different values the transaction wrote
\* to the key.
C8_Witness ==
  /\ ev.op = "read" /\ ev.kind = "ok"
  /\ Len(txs[ev.tx].wrote[ev.key]) = 2
  /\ txs[ev.tx].wrote[ev.key][1] # txs[ev.tx].wrote[ev.key][2]
  /\ ev.val = txs[ev.tx].wrote[ev.key][2]

\* The version ids of key that are at most snapshot.
IdsUpTo(key, snapshot) ==
  {versions[key][i].version_id : i \in 1..Len(versions[key])} \cap 0..snapshot

\* C9. For every key and every snapshot, store.read returns the value of the
\* version of the key with the largest id that is at most the snapshot, and
\* none when the key has no such version.
C9_StoreRead ==
  \A key \in AllKeys, snapshot \in 0..MaxVersion :
    IF IdsUpTo(key, snapshot) = {}
    THEN StoreRead(versions, key, snapshot) = NoneV
    ELSE \E i \in 1..Len(versions[key]) :
           /\ \A id \in IdsUpTo(key, snapshot) :
                id <= versions[key][i].version_id
           /\ versions[key][i].version_id \in IdsUpTo(key, snapshot)
           /\ StoreRead(versions, key, snapshot) = versions[key][i].value

\* A direct store read returned the value of the second of three versions of
\* its key: one version is older, one is newer than the snapshot.
C9_Witness ==
  /\ ev.op = "store.read" /\ ev.kind = "ok"
  /\ Len(versions[ev.key]) = 3
  /\ versions[ev.key][2].version_id <= ev.tx
  /\ ev.tx < versions[ev.key][3].version_id
  /\ ev.val = versions[ev.key][2].value

\* The step is a call of the stranger t: no other thread moves.  (Every call
\* of another thread changes its pc or its job.)
StrangerStep(t) ==
  /\ job[t].role = "stranger"
  /\ \A u \in Threads \ {t} :
       pc'[u] = pc[u] /\ job'[u] = job[u] /\ loc'[u] = loc[u]

\* C10. Unknown transaction: a read, write or commit call that names a
\* transaction that is not live raises KeyError and changes neither the
\* store, the version counter, the live set, the counters nor the latencies.
C10_UnknownTransaction ==
  [][\A t \in Threads :
       StrangerStep(t)
         => /\ ev'.thread = t
            /\ ev'.op \in {"read", "write", "commit"}
            /\ ev'.tx \notin transactions
            /\ ev'.kind = "KeyError"
            /\ pc'[t] = "idle"
            /\ shared' = shared
            /\ written' = written]_vars

\* A commit call names a transaction that a finished commit has removed, on a
\* store that holds a version.
C10_Witness ==
  /\ ev.op = "commit" /\ ev.kind = "KeyError"
  /\ txs[ev.tx].status = "committed"
  /\ committed_count = 1
  /\ version_counter > 0

\* C12. The live set holds only active transactions: every transaction in
\* mgr.transactions has status active (so that a status that becomes
\* committed or aborted leaves the live set in the same step, and gc()'s
\* min_snapshot never counts an aborted transaction).
C12_LiveAreActive ==
  \A x \in transactions : txs[x].status = "active"

\* C13. Counter and append are one step for snapshots: when
\* begin_transaction reads the counter, the version with the id it reads is
\* in the store (gc never removes the version with the largest id issued);
\* and no stored version has an id greater than the counter.
C13_SnapshotVersionsPresent ==
  [][/\ \A t \in Threads :
          (pc[t] = "b_snap" /\ pc'[t] = "b_ins" /\ loc'[t].min_snapshot > 0)
            => \E k \in AllKeys : \E i \in 1..Len(versions[k]) :
                 versions[k][i].version_id = loc'[t].min_snapshot
     /\ \A k \in AllKeys : \A i \in 1..Len(versions'[k]) :
          versions'[k][i].version_id <= version_counter']_vars

\* The newest version of key k in the store vs (0: the key has none).
NewestId(vs, k) ==
  IF vs[k] = <<>> THEN 0 ELSE vs[k][Len(vs[k])].version_id

\* C14. No write is lost to gc: no step removes the newest version of a key,
\* so that a version a store write has appended stays in the key's sequence
\* until a newer one is there, and a read at current_version() returns its
\* value or a newer one.
C14_NoWriteLost ==
  [][\A k \in AllKeys : NewestId(versions', k) >= NewestId(versions, k)]_vars

\* C20. gc() never fails: every gc() call returns a count.
C20_GcNeverFails ==
  ev.op = "gc" => ev.kind = "ok"
RECURSIVE CountVersions(_, _)
\* The number of versions the store vs holds of the keys S.
CountVersions(vs, S) ==
  IF S = {} THEN 0
  ELSE LET k == CHOOSE k \in S : TRUE
       IN  Len(vs[k]) + CountVersions(vs, S \ {k})

\* The keys the store vs holds.
KeysOf(vs) == {k \in AllKeys : vs[k] # <<>>}

\* C11. gc() with no live transaction: a gc() call that runs while the live
\* set is empty returns a count, leaves every key with exactly one version,
\* the newest it had, and returns the number of versions before the call
\* minus the number of keys: at least 1 when some key had two versions or
\* more.  A read of any key at current_version() returns what it returned
\* before the call.
C11_GcWithNoLiveTransaction ==
  [][(ev'.op = "gc" /\ transactions = {})
       => LET before == job[ev'.thread].before
          IN  /\ ev'.kind = "ok"
              /\ \A k \in AllKeys :
                   versions'[k] = IF before[k] = <<>> THEN <<>>
                                  ELSE <<before[k][Len(before[k])]>>
              /\ ev'.val = CountVersions(before, AllKeys)
                             - Cardinality(KeysOf(before))
              /\ (\E k \in AllKeys : Len(before[k]) >= 2) => ev'.val >= 1
              /\ \A k \in AllKeys :
                   StoreRead(versions', k, version_counter')
                     = StoreRead(before, k, version_counter)]_vars

\* A gc() call with no live transaction returned 1: the store holds two keys,
\* one version of each.
C11_Witness ==
  /\ ev.op = "gc" /\ ev.kind = "ok" /\ ev.val = 1
  /\ transactions = {}
  /\ Len(versions["a"]) = 1 /\ Len(versions["b"]) = 1

\* The version ids of a list of versions.
IdsOf(list) == {list[i].version_id : i \in 1..Len(list)}

\* The ids gc() is to keep of a list, for min_snapshot m: the largest id that
\* is at most m, and every id greater than m.
KeptIds(list, m) ==
  {id \in IdsOf(list) :
     \/ id > m
     \/ id <= m /\ \A other \in IdsOf(list) : other <= m => other <= id}

\* The minimum snapshot_version over the live transactions, or the current
\* version when none is live.
OldestSnapshot ==
  IF transactions = {} THEN version_counter
  ELSE CHOOSE m \in 0..version_counter :
         /\ \E x \in transactions : txs[x].snapshot_version = m
         /\ \A x \in transactions : txs[x].snapshot_version >= m

\* C16. gc() retention rule: when a gc() call returns, each key's sequence
\* holds, in their original order, the newest version with id at most
\* min_snapshot and every version with id greater than min_snapshot, and no
\* other; the value returned is the number of versions removed; no key is
\* left with an empty sequence.
C16_GcRetention ==
  [][ev'.op = "gc"
       => LET before == job[ev'.thread].before
          IN  /\ ev'.kind = "ok"
              /\ \A k \in AllKeys :
                   versions'[k] =
                     SelectSeq(before[k],
                               LAMBDA v : v.version_id
                                            \in KeptIds(before[k], OldestSnapshot))
              /\ ev'.val = CountVersions(before, AllKeys)
                             - CountVersions(versions', AllKeys)
              /\ KeysOf(versions') = KeysOf(before)
              /\ \A i \in 1..Len(vkeys') : versions'[vkeys'[i]] # <<>>]_vars

\* A gc() call with a live transaction at snapshot 2 returned 1: of the three
\* versions of a key it removed the first and kept the one the transaction
\* sees and the newer one.
C16_Witness ==
  /\ ev.op = "gc" /\ ev.kind = "ok" /\ ev.val = 1
  /\ \E x \in transactions : txs[x].snapshot_version = 2
  /\ \E k \in Keys : IdsOf(versions[k]) = {2, 3}
\* The store without the versions the commit of transaction x has written:
\* the store as that commit's validation saw it, when no other call ran
\* meanwhile.
StoreBefore(x) ==
  [k \in AllKeys |->
     SelectSeq(versions[k], LAMBDA v : v.version_id \notin written[x])]

\* Some key of x's read set has, as the last version of its sequence in vs, a
\* version with an id greater than the id x recorded for the key.
Overwritten(x, vs) ==
  \E i \in 1..Len(txs[x].read_set) :
    NewestId(vs, txs[x].read_set[i].key) > txs[x].read_set[i].version_id

\* C15. Validation rule: a commit that runs with no other call in between
\* returns failure exactly when some key of the read set has a last version
\* with an id greater than the id recorded for it, whatever the write set:
\* the return of a failure (the step that counts the abort) finds such a key,
\* the return of a success (the step that counts the commit) finds none in
\* the store as it was before the commit's own writes.
C15_ValidationRule ==
  [][\A t \in Threads :
       /\ (pc[t] = "c_abfin" /\ pc'[t] = "idle")
            => /\ Overwritten(loc[t].tx, versions)
               /\ aborted_count' = aborted_count + 1
       /\ (pc[t] = "c_fin" /\ pc'[t] = "idle")
            => /\ ~Overwritten(loc[t].tx, StoreBefore(loc[t].tx))
               /\ committed_count' = committed_count + 1]_vars

\* The commit of a read-only transaction whose read key was overwritten has
\* returned failure.
C15_Witness ==
  \E x \in TxIds :
    /\ txs[x].status = "aborted" /\ x \notin transactions
    /\ aborted_count = 1
    /\ txs[x].write_set = <<>>
    /\ Overwritten(x, versions)
\* The value a write set holds for a key (NoneV: the key is not in it).
Buffered(ws, key) == IF DictHas(ws, key) THEN DictGet(ws, key).value ELSE NoneV

\* C18. Buffered writes are private: the step of mgr.write(T, k, v) makes v
\* the one value T's write set holds for k and changes nothing else: not the
\* other keys of the write set, T's read set, snapshot or status, any other
\* transaction, the live set, the version sequences or the version counter.
\* A value of a write set is in the store only as a version some commit has
\* written.
C18_BufferedWritesPrivate ==
  [][/\ \A x \in TxIds :
          txs'[x].wrote # txs[x].wrote
            => \E k \in AllKeys, v \in Values :
                 /\ txs'[x].wrote = [txs[x].wrote EXCEPT ![k] = Append(@, v)]
                 /\ Buffered(txs'[x].write_set, k) = v
                 /\ \A j \in AllKeys \ {k} :
                      Buffered(txs'[x].write_set, j)
                        = Buffered(txs[x].write_set, j)
                 /\ Len(txs'[x].write_set)
                      = Cardinality({j \in AllKeys :
                                       DictHas(txs'[x].write_set, j)})
                 /\ txs'[x].read_set = txs[x].read_set
                 /\ txs'[x].snapshot_version = txs[x].snapshot_version
                 /\ txs'[x].status = txs[x].status
                 /\ \A y \in TxIds \ {x} : txs'[y] = txs[y]
                 /\ transactions' = transactions
                 /\ versions' = versions
                 /\ vkeys' = vkeys
                 /\ version_counter' = version_counter
     /\ \A k \in AllKeys : \A i \in 1..Len(versions'[k]) :
          versions'[k][i].value \in Values
            => \E c \in TxIds : versions'[k][i].version_id \in written'[c]]_vars

\* A live transaction has written two different values to a key and buffers
\* the second, beside another live transaction, and no commit has written.
C18_Witness ==
  \E x, y \in transactions : \E k \in Keys :
    /\ x # y
    /\ Len(txs[x].wrote[k]) = 2
    /\ txs[x].wrote[k][1] # txs[x].wrote[k][2]
    /\ Buffered(txs[x].write_set, k) = txs[x].wrote[k][2]
    /\ \A c \in TxIds : written[c] = {}
\* The validation of an inserter that read its key as none never fails; and
\* when the commits of two inserters that both read key k as none and both
\* wrote k have returned, both returned success and k holds two versions with
\* different ids, one of each commit.
BothInserted ==
  /\ \A t \in Threads :
       (job[t].role = "inserter" /\ job[t].read_none)
         => txs[job[t].tx].status # "aborted"
  /\ \A t, u \in Threads :
       ( /\ t # u
         /\ InserterDone(t) /\ InserterDone(u)
         /\ job[t].read_none /\ job[u].read_none
         /\ job[t].from = job[u].from )
       => LET x == job[t].tx
              y == job[u].tx
              k == job[t].from
          IN  /\ CommitSucceeded(x) /\ CommitSucceeded(y)
              /\ Cardinality(written[x]) = 1
              /\ Cardinality(written[y]) = 1
              /\ written[x] # written[y]
              /\ IdsOf(versions[k]) = written[x] \cup written[y]
              /\ Len(versions[k]) = 2

\* C19. Inserts of an absent key do not conflict: a mgr.read that returns
\* none leaves the read set as it was; and two concurrent transactions that
\* both read key k as none and both write k both commit successfully, in
\* whichever order they commit, and k ends with two versions with different
\* ids.
C19_InsertsDoNotConflict ==
  [][/\ (ev'.op = "read" /\ ev'.kind = "ok" /\ ev'.val = NoneV)
          => txs'[ev'.tx].read_set = txs[ev'.tx].read_set
     /\ BothInserted']_vars

\* Two inserters read the same key as none, wrote it and committed, and the
\* transaction that began second committed first.
C19_Witness ==
  \E t, u \in Threads :
    /\ t # u
    /\ InserterDone(t) /\ InserterDone(u)
    /\ job[t].read_none /\ job[u].read_none
    /\ job[t].from = job[u].from
    /\ job[t].tx < job[u].tx
    /\ CommitSucceeded(job[t].tx) /\ CommitSucceeded(job[u].tx)
    /\ \E i \in written[job[t].tx], j \in written[job[u].tx] : j < i
\* The version ids the store vs holds.
StoredIds(vs) == UNION {IdsOf(vs[k]) : k \in AllKeys}

\* No two versions of the store carry the same id, and within each key's
\* sequence the ids are strictly increasing.
IdsInOrder ==
  /\ \A k \in AllKeys : \A i, j \in 1..Len(versions[k]) :
       i < j => versions[k][i].version_id < versions[k][j].version_id
  /\ \A k, l \in AllKeys :
       k # l => IdsOf(versions[k]) \cap IdsOf(versions[l]) = {}

\* C17. Version id order: in every state no two stored versions carry the
\* same id and the ids of each key's sequence are strictly increasing; the
\* counter never decreases, and the id of a version that a step adds to the
\* store is larger than every id the store held and is at most the counter.
C17_VersionIdOrder ==
  [][/\ IdsInOrder'
     /\ version_counter' >= version_counter
     /\ \A id \in StoredIds(versions') \ StoredIds(versions) :
          /\ \A old \in StoredIds(versions) : old < id
          /\ id > 0 /\ id <= version_counter']_vars

\* After a gc run the store holds a version a commit wrote and a version a
\* direct store write wrote, and a key holds two versions.
C17_Witness ==
  /\ gc_runs = 1
  /\ \E c \in TxIds : written[c] \cap StoredIds(versions) # {}
  /\ StoredIds(versions) \ UNION {written[c] : c \in TxIds} # {}
  /\ \E k \in Keys : Len(versions[k]) = 2
\* Thread t waits for a lock that is held.
Blocked(t) ==
  \/ pc[t] \in {"b_lock", "c_lock", "g_lock"} /\ lock # 0
  \/ pc[t] \in {"sw_lock", "c_inc"} /\ store_lock # 0

\* C21. Deadlock freedom: in no state is every thread whose call is under
\* way blocked on the manager lock or the store lock; and when every thread
\* that can take a step of its call eventually takes one, every call that has
\* started eventually ends.
C21_DeadlockFree ==
  /\ [](\A t \in Threads :
          Blocked(t) => \E u \in Threads : pc[u] # "idle" /\ ~Blocked(u))
  /\ \A t \in Threads : (pc[t] # "idle") ~> (pc[t] = "idle")

\* A commit holds the manager lock and waits for the store lock, which a
\* direct store write holds, while gc() waits for the manager lock.
C21_Witness ==
  \E t, u, w \in Threads :
    /\ pc[t] = "c_inc" /\ lock = t
    /\ pc[u] = "sw_app" /\ store_lock = u
    /\ pc[w] = "g_lock"
====
